---- MODULE Spec2Model ----
(***************************************************************************)
(* Model of av_play's playlist progression controller (AVPlayer in         *)
(* __AV_Player.py): the controller fields, the caller-invoked operations,  *)
(* the background monitor thread(s) running _monitor_playback, and the     *)
(* playback backend reached through AVMediaInstance.                       *)
(*                                                                         *)
(* The caller's operations run on one owning thread.  Each is one action,  *)
(* except that thread.join(timeout=1.0) inside _stop_monitor is a point    *)
(* where the caller blocks while monitor threads keep running: the call    *)
(* is split there (caller = "join_...").  A monitor thread is split at     *)
(* its blocking points: the loop test, the backend state query, the        *)
(* reaction to the state read, the 0.5 s settle sleep and the 0.5 s        *)
(* back-off sleep of the exception handler.                                *)
(*                                                                         *)
(* A bound playlist is represented by its length (its entries are never    *)
(* mutated while bound); every entry is a loadable location.               *)
(*                                                                         *)
(* threads[MonitorThread] is the Thread object self._monitor_thread refers *)
(* to ("unborn" while it is None, "dead" once it has exited); the other    *)
(* slots hold threads that are still alive but that _start_monitor has     *)
(* replaced in self._monitor_thread.                                       *)
(***************************************************************************)
EXTENDS Integers, Sequences, FiniteSets, TLC

\* ---------------------------------------------------------------- bounds
MaxLen == 2        \* longest playlist handed to load_playlist
MaxIndex == 2      \* cap on _current_playlist_index (no advance is taken beyond it)
MaxThreads == 2    \* monitor Thread objects that may be alive at once
MaxEntries == 5    \* longest entry list of a Playlist object
MaxLines == 4      \* longest playlist document, in lines
MaxAdded == 1      \* entries of a playlist before it is merged
MaxSources == 3    \* longest source list given to merge_playlists
MaxText == 2       \* longest source text given to Playlist.load, in lines

\* ------------------------------------------------------------- constants
NoPlaylist == -1   \* _current_playlist is None
NoIndex == -1      \* _current_playlist_index before any playlist is loaded
MonitorThread == 1 \* the slot of self._monitor_thread

Modes == {"SEQUENTIAL", "REPEAT_ALL", "REPEAT_ONE", "SHUFFLE"}
PlaylistStates == {"STOPPED", "PLAYING", "PAUSED", "FINISHED"}
PlaybackStates == {"NOTHING", "STOPPED", "PLAYING", "PAUSED"}
Threads == 1..MaxThreads

VARIABLES
    current_playlist,        \* NoPlaylist or the length of the bound playlist
    current_playlist_index,  \* _current_playlist_index
    auto_play_enabled,       \* _auto_play_enabled
    playlist_mode,           \* _playlist_mode
    playlist_state,          \* _playlist_state
    monitor_running,         \* _monitor_running
    shuffle_order,           \* _shuffle_order, a sequence of indices
    track_end_callback,      \* TRUE iff a track-end callback is registered
    primary_instance,        \* TRUE iff _primary_instance is not None
    threads,                 \* the monitor threads: pc and locals of each
    backend,                 \* the playback backend behind the instance
    caller,                  \* "idle", the call blocked in join(), or the
                             \* player class whose release() has returned
    playlists,               \* PlaylistManager.playlists: name -> Playlist object
    objects,                 \* the Playlist objects: title and entries of each
    content,                 \* a playlist document: its lines
    returned                 \* what the last playlist-library call returned

\* the player's variables and the playlist library's
player == <<current_playlist, current_playlist_index, auto_play_enabled,
            playlist_mode, playlist_state, monitor_running,
            shuffle_order, track_end_callback, primary_instance, threads,
            backend, caller>>

library == <<playlists, objects, content, returned>>

vars == <<player, library>>

ctrl == <<current_playlist, current_playlist_index, auto_play_enabled,
          playlist_mode, playlist_state, shuffle_order>>

\* ---------------------------------------------------------------- helpers

\* len(self._current_playlist) for a bound playlist
PlaylistLen(pl) == IF pl = NoPlaylist THEN 0 ELSE pl

\* truth value of a Playlist object: it defines __len__ and no __bool__,
\* so None and the empty playlist are both false
Truthy(pl) == pl # NoPlaylist /\ pl > 0

\* the permutations of 0..n-1 random.shuffle may produce
Perms(n) == {s \in [1..n -> 0..(n - 1)] : \A i, j \in 1..n : s[i] = s[j] => i = j}

Orders == [n \in 0..MaxLen |-> Perms(n)]

Range(s) == {s[i] : i \in 1..Len(s)}

\* list.index(x): 0-based position of the first occurrence
IndexOf(s, x) == (CHOOSE i \in 1..Len(s) : s[i] = x /\ \A j \in 1..(i - 1) : s[j] # x) - 1

IdleThread == [pc |-> "unborn", state |-> "NOTHING", track |-> NoIndex]

Alive(t) == threads[t].pc \notin {"unborn", "dead"}
AliveIn(thr, t) == thr[t].pc \notin {"unborn", "dead"}

\* ---------------------------------------------------------------- backend

\* load_file / load_url of entry i: the backend holds entry i, not playing
BackendLoad(be, i) == [state |-> "STOPPED", track |-> i, at_end |-> FALSE]

\* play(): starts or resumes; a track that had ended or was stopped restarts
BackendPlay(be) ==
    IF be.track = NoIndex THEN be
    ELSE [be EXCEPT !.state = "PLAYING",
                    !.at_end = IF be.state \in {"PLAYING", "PAUSED"} THEN be.at_end ELSE FALSE]

BackendPause(be) == IF be.state = "PLAYING" THEN [be EXCEPT !.state = "PAUSED"] ELSE be

BackendStop(be) == IF be.track = NoIndex THEN be ELSE [be EXCEPT !.state = "STOPPED", !.at_end = FALSE]

\* AVMediaInstance.release(): stop, then the backend drops the instance's media
BackendRelease(be) == [state |-> "STOPPED", track |-> NoIndex, at_end |-> FALSE]

\* ------------------------------------------------- controller subroutines

\* a _play_playlist_track that loads the entry and leaves starting it to a
\* later step
PlayPlaylistTrackLoadsOnly(pl, idx, pstate, be, fail) ==
    IF Truthy(pl) /\ 0 <= idx /\ idx < PlaylistLen(pl)
    THEN [playlist_state |-> pstate, backend |-> BackendLoad(be, idx), raised |-> FALSE]
    ELSE [playlist_state |-> pstate, backend |-> be, raised |-> FALSE]

\* _play_playlist_track on playlist pl at index idx.  fail names the backend
\* command that raises: "none", "load" or "play".
PlayPlaylistTrack(pl, idx, pstate, be, fail) ==
    IF Truthy(pl) /\ 0 <= idx /\ idx < PlaylistLen(pl)
    THEN IF fail = "load"
         THEN [playlist_state |-> pstate, backend |-> be, raised |-> TRUE]
         ELSE IF fail = "play"
         THEN [playlist_state |-> pstate, backend |-> BackendLoad(be, idx), raised |-> TRUE]
         ELSE [playlist_state |-> "PLAYING", backend |-> BackendPlay(BackendLoad(be, idx)),
               raised |-> FALSE]
    ELSE [playlist_state |-> pstate, backend |-> be, raised |-> FALSE]

\* an advance that only increments: no wrap-around, no Finished
AdvanceStepIncrements(pl, idx, mode, order) == [index |-> idx + 1, finished |-> FALSE]

\* an advance that wraps around at the end of the shuffle order
AdvanceStepShuffleWraps(pl, idx, mode, order) ==
    IF mode = "SHUFFLE" /\ idx \in Range(order)
    THEN [index |-> order[((IndexOf(order, idx) + 1) % Len(order)) + 1], finished |-> FALSE]
    ELSE [index |-> idx, finished |-> FALSE]

\* an advance that finishes at the end of the playlist in every mode
AdvanceStepNoWrap(pl, idx, mode, order) ==
    IF idx + 1 >= PlaylistLen(pl)
    THEN [index |-> idx + 1, finished |-> TRUE]
    ELSE [index |-> idx + 1, finished |-> FALSE]

\* the index _advance_track moves to, and whether it finishes instead of playing
AdvanceStep(pl, idx, mode, order) ==
    IF mode = "REPEAT_ONE"
    THEN [index |-> idx, finished |-> FALSE]
    ELSE IF mode = "SHUFFLE"
    THEN IF idx \in Range(order)
         THEN IF IndexOf(order, idx) + 1 >= Len(order)
              THEN [index |-> idx, finished |-> TRUE]
              ELSE [index |-> order[IndexOf(order, idx) + 2], finished |-> FALSE]
         ELSE [index |-> IF Len(order) > 0 THEN order[1] ELSE 0, finished |-> FALSE]
    ELSE IF idx + 1 >= PlaylistLen(pl)
         THEN IF mode = "REPEAT_ALL"
              THEN [index |-> 0, finished |-> FALSE]
              ELSE [index |-> idx + 1, finished |-> TRUE]
         ELSE [index |-> idx + 1, finished |-> FALSE]

\* _advance_track: new index, playlist state and backend, and whether it raised
AdvanceTrack(pl, idx, mode, order, pstate, be, fail) ==
    IF ~Truthy(pl)
    THEN [index |-> idx, playlist_state |-> pstate, backend |-> be, raised |-> FALSE, played |-> FALSE]
    ELSE LET a == AdvanceStep(pl, idx, mode, order)
             p == PlayPlaylistTrack(pl, a.index, pstate, be, fail)
         IN  IF a.finished
             THEN [index |-> a.index, playlist_state |-> "FINISHED", backend |-> be,
                   raised |-> FALSE, played |-> FALSE]
             ELSE [index |-> a.index, playlist_state |-> p.playlist_state,
                   backend |-> p.backend, raised |-> p.raised, played |-> TRUE]

\* _start_monitor: the threads after the call.  A new Thread replaces the
\* one in self._monitor_thread; a replaced thread that is still alive goes on
\* running in another slot.
StartedThreads(running, thr) ==
    IF running THEN thr
    ELSE IF AliveIn(thr, MonitorThread)
    THEN LET k == CHOOSE t \in Threads \ {MonitorThread} :
                     /\ ~AliveIn(thr, t)
                     /\ \A u \in Threads \ {MonitorThread} : ~AliveIn(thr, u) => t <= u
         IN  [thr EXCEPT ![k] = thr[MonitorThread],
                         ![MonitorThread] = [IdleThread EXCEPT !.pc = "check"]]
    ELSE [thr EXCEPT ![MonitorThread] = [IdleThread EXCEPT !.pc = "check"]]

\* a Thread object can be created (the model's bound on live threads)
CanStart(running, thr) ==
    \/ running
    \/ ~AliveIn(thr, MonitorThread)
    \/ \E t \in Threads \ {MonitorThread} : ~AliveIn(thr, t)

\* _stop_monitor blocks in join() iff self._monitor_thread is alive
MustJoin == Alive(MonitorThread)

\* ------------------------------------------------------ playlist library

\* an Optional value: None, or the value itself
None == {}
Some(x) == {x}

Locations == {"a.mp3", "b.mp3", "c.mp3"}
Titles == {"A", "B"}

\* PlaylistEntry: location, optional title, optional duration
Entry(location, title, duration) ==
    [location |-> location, title |-> title, duration |-> duration]

\* the lists of up to n elements of S
EntryLists(S, n) == UNION {[1..k -> S] : k \in 0..n}

\* the attributes remove_duplicates takes as key
KeyAttrs == {"location", "title"}

\* getattr(entry, attr)
KeyOf(entry, attr) == IF attr = "location" THEN Some(entry.location) ELSE entry.title

\* the loop of remove_duplicates over the entries es still to visit
RECURSIVE DedupLoop(_, _, _, _, _)
DedupLoop(es, attr, seen, unique_entries, removed_count) ==
    IF es = <<>>
    THEN [entries |-> unique_entries, removed |-> removed_count]
    ELSE IF KeyOf(Head(es), attr) \notin seen
    THEN DedupLoop(Tail(es), attr, seen \cup {KeyOf(Head(es), attr)},
                   Append(unique_entries, Head(es)), removed_count)
    ELSE DedupLoop(Tail(es), attr, seen, unique_entries, removed_count + 1)

\* a remove_duplicates that reports how many entries it kept
RemoveDuplicatesCountsKept(es, attr) ==
    [entries |-> DedupLoop(es, attr, {}, <<>>, 0).entries,
     removed |-> Len(DedupLoop(es, attr, {}, <<>>, 0).entries)]

\* remove_duplicates(key) on entries es: the new entries and the count returned
RemoveDuplicatesResult(es, attr) == DedupLoop(es, attr, {}, <<>>, 0)

\* ---- text conversions of the parsers

\* PlaylistParser.normalize_path: URLs unchanged, paths through os.path.normpath
NormalizePath(text) == IF text = "./c.mp3" THEN "c.mp3" ELSE text

\* int(float(text)) on the number texts of the model: the value, or the
\* exception raised (float("inf") is a float that int() cannot convert)
IntOfFloat(text) ==
    CASE text = "180"  -> [raises |-> "none", value |-> 180]
      [] text = "12.7" -> [raises |-> "none", value |-> 12]
      [] text = "12"   -> [raises |-> "none", value |-> 12]
      [] text = "0"    -> [raises |-> "none", value |-> 0]
      [] text = "-1"   -> [raises |-> "none", value |-> -1]
      [] text = "inf"  -> [raises |-> "OverflowError", value |-> 0]
      [] OTHER         -> [raises |-> "ValueError", value |-> 0]

\* int(text) on the index texts of the model: None stands for ValueError
IntOf(text) ==
    CASE text = "1" -> Some(1)
      [] text = "2" -> Some(2)
      [] text = "3" -> Some(3)
      [] OTHER      -> None

\* ---- PLSParser

\* a line of key-indexed text after strip(), split('=', 1) and lower(): key is
\* "file", "title" or "length" with the rest of the key in index, or "other"
\* for a line the loop skips (blank, [playlist], no '=', any other key)
PLSLine(key, index, value) == [key |-> key, index |-> index, value |-> value]

\* m[i] = v
Put(m, i, v) == [j \in DOMAIN m \cup {i} |-> IF j = i THEN v ELSE m[j]]

\* dict.get(i): None when absent
Get(m, i) == IF i \in DOMAIN m THEN m[i] ELSE None

EmptyMap == [j \in {} |-> None]

Max(a, b) == IF a >= b THEN a ELSE b

\* the first loop of PLSParser.parse over the lines still to read; st holds
\* file_map, title_map, length_map, num_entries and whether a line raised
RECURSIVE PLSScan(_, _)
PLSScan(lines, st) ==
    IF lines = <<>> \/ st.raised THEN st
    ELSE LET line == Head(lines)
             index == IntOf(line.index)
             i == CHOOSE x \in index : TRUE
             n == IntOfFloat(line.value)
         IN  IF line.key = "other" \/ index = None
             THEN PLSScan(Tail(lines), st)
             ELSE IF line.key = "file"
             THEN PLSScan(Tail(lines),
                          [st EXCEPT !.file_map = Put(st.file_map, i, NormalizePath(line.value)),
                                     !.num_entries = Max(st.num_entries, i)])
             ELSE IF line.key = "title"
             THEN PLSScan(Tail(lines), [st EXCEPT !.title_map = Put(st.title_map, i, Some(line.value))])
             ELSE IF line.value = "-1" \/ n.raises = "ValueError"
             THEN PLSScan(Tail(lines), [st EXCEPT !.length_map = Put(st.length_map, i, None)])
             ELSE IF n.raises = "OverflowError"
             THEN [st EXCEPT !.raised = TRUE]
             ELSE PLSScan(Tail(lines), [st EXCEPT !.length_map = Put(st.length_map, i, Some(n.value))])

\* the second loop: entries for i = from .. num_entries
RECURSIVE PLSBuild(_, _)
PLSBuild(st, from) ==
    IF from > st.num_entries THEN <<>>
    ELSE IF from \in DOMAIN st.file_map
    THEN <<Entry(st.file_map[from], Get(st.title_map, from), Get(st.length_map, from))>>
            \o PLSBuild(st, from + 1)
    ELSE PLSBuild(st, from + 1)

\* PLSParser.parse(content): the entries, or raised when an exception left it
PLSParse(lines) ==
    LET st == PLSScan(lines, [file_map |-> EmptyMap, title_map |-> EmptyMap,
                              length_map |-> EmptyMap, num_entries |-> 0, raised |-> FALSE])
    IN  [kind |-> "entries", raised |-> st.raised,
         entries |-> IF st.raised THEN <<>> ELSE PLSBuild(st, 1)]

\* ---- M3UParser

\* a line of sequential text after strip(): blank, a comment (text is the
\* line: "#EXTM3U" or another '#' line), a metadata line "#EXTINF:" dur
\* [ "," title ] (title after strip()), or a location
M3UBlank == [kind |-> "blank", text |-> "", dur |-> "", comma |-> FALSE, title |-> ""]
M3UComment(text) == [kind |-> "comment", text |-> text, dur |-> "", comma |-> FALSE, title |-> ""]
M3UExtInf(dur, comma, title) ==
    [kind |-> "extinf", text |-> "", dur |-> dur, comma |-> comma, title |-> title]
M3ULocation(text) == [kind |-> "loc", text |-> text, dur |-> "", comma |-> FALSE, title |-> ""]

\* str(duration)
StrOf(n) ==
    CASE n = 180 -> "180"
      [] n = 12  -> "12"
      [] n = 0   -> "0"
      [] n = -1  -> "-1"
      [] OTHER   -> "?"

\* the while loop of M3UParser.parse from line i (1-based) on, with the
\* entries built so far; raised when int(float()) raised other than ValueError
RECURSIVE M3UScan(_, _, _)
M3UScan(lines, i, entries) ==
    IF i > Len(lines) THEN [kind |-> "entries", raised |-> FALSE, entries |-> entries]
    ELSE IF lines[i].kind \in {"blank", "comment"} THEN M3UScan(lines, i + 1, entries)
    ELSE IF lines[i].kind = "extinf"
    THEN LET n == IntOfFloat(lines[i].dur)
             duration == IF n.raises = "none" THEN Some(n.value) ELSE None
             title == IF lines[i].comma THEN Some(lines[i].title) ELSE None
         IN  IF n.raises = "OverflowError"
             THEN [kind |-> "entries", raised |-> TRUE, entries |-> <<>>]
             ELSE IF i + 1 > Len(lines)
             THEN [kind |-> "entries", raised |-> FALSE, entries |-> entries]
             ELSE IF lines[i + 1].kind = "loc"
             THEN M3UScan(lines, i + 2,
                          Append(entries, Entry(NormalizePath(lines[i + 1].text), title, duration)))
             ELSE M3UScan(lines, i + 2, entries)
    ELSE M3UScan(lines, i + 1, Append(entries, Entry(NormalizePath(lines[i].text), None, None)))

\* M3UParser.parse(content)
M3UParse(lines) == M3UScan(lines, 1, <<>>)

\* original_content.strip().startswith("#EXTM3U"): the first non-blank line
\* is the header
StartsWithHeader(lines) ==
    \E i \in 1..Len(lines) :
        /\ lines[i] = M3UComment("#EXTM3U")
        /\ \A j \in 1..(i - 1) : lines[j].kind = "blank"

\* the lines serialize emits for one entry
M3UEntryLines(entry) ==
    (IF (entry.title # None /\ entry.title # Some("")) \/ entry.duration # None
     THEN <<M3UExtInf(IF entry.duration # None THEN StrOf(CHOOSE d \in entry.duration : TRUE) ELSE "-1",
                      TRUE,
                      IF entry.title # None THEN CHOOSE t \in entry.title : TRUE ELSE "")>>
     ELSE <<>>) \o <<M3ULocation(entry.location)>>

RECURSIVE M3UBody(_)
M3UBody(entries) ==
    IF entries = <<>> THEN <<>> ELSE M3UEntryLines(Head(entries)) \o M3UBody(Tail(entries))

\* M3UParser.serialize(entries, original_content), as the lines of the text
\* it returns; original is the original document (empty: no original
\* content).  The header element ends in a newline of its own, so a blank
\* line follows it.
M3USerialize(entries, original) ==
    (IF original = <<>> \/ StartsWithHeader(original)
     THEN <<M3UComment("#EXTM3U"), M3UBlank>> ELSE <<>>) \o M3UBody(entries)

\* the Playlist objects and the names PlaylistManager registers them under
Names == {"p", "q", "r"}
NameRank == [n \in Names |-> CASE n = "p" -> 1 [] n = "q" -> 2 [] OTHER -> 3]
\* at most one object per name is referenced at a time
ObjIds == 1..Cardinality(Names)
NoObject == 0

\* a Playlist() as constructed, and the slot of an object that does not
\* exist.  A title is the sequence of the titles that merge has joined with
\* " + " (one element for a title given as such); it is never empty.
NewPlaylist == [title |-> <<"New Playlist">>, entries |-> <<>>]
FreeObject == [title |-> <<>>, entries |-> <<>>]

\* a Playlist.merge that puts the other playlist's entries first
MergePrepends(self, other) ==
    [title |-> self.title \o other.title, entries |-> other.entries \o self.entries]

\* Playlist.merge(other): a new Playlist
Merge(self, other) ==
    [title |-> self.title \o other.title, entries |-> self.entries \o other.entries]

\* the loop of merge_playlists over the remaining source objects
RECURSIVE MergeAll(_, _)
MergeAll(merged, rest) ==
    IF rest = <<>> THEN merged ELSE MergeAll(Merge(merged, Head(rest)), Tail(rest))

\* the objects still referenced by a name (the others are garbage)
Collect(pl, objs) ==
    [o \in ObjIds |-> IF \E n \in Names : pl[n] = o THEN objs[o] ELSE FreeObject]

\* the slot a Playlist created for name takes: the lowest one that no other
\* name refers to
FreshFor(name) ==
    CHOOSE o \in ObjIds :
        /\ \A n \in Names \ {name} : playlists[n] # o
        /\ \A u \in ObjIds : (\A n \in Names \ {name} : playlists[n] # u) => o <= u

NoReturn == [kind |-> "none"]

InitLibrary ==
    /\ playlists = [n \in Names |-> NoObject]
    /\ objects = [o \in ObjIds |-> FreeObject]
    /\ content = <<>>
    /\ returned = NoReturn

\* ------------------------------------------------------------------- Init
InitPlayer ==
    /\ current_playlist = NoPlaylist
    /\ current_playlist_index = NoIndex
    /\ auto_play_enabled = FALSE
    /\ playlist_mode = "SEQUENTIAL"
    /\ playlist_state = "STOPPED"
    /\ monitor_running = FALSE
    /\ shuffle_order = <<>>
    /\ track_end_callback = FALSE
    /\ primary_instance = FALSE
    /\ threads = [t \in Threads |-> IdleThread]
    /\ backend = [state |-> "NOTHING", track |-> NoIndex, at_end |-> FALSE]
    /\ caller = "idle"

Init == InitPlayer /\ InitLibrary

CallerIdle == caller = "idle"

Released == {"released_fmod", "released_mpv", "released_vlc"}

\* -------------------------------------------------------- caller operations

\* load_playlist(playlist, auto_play, mode) with a playlist of n entries;
\* order is the permutation random.shuffle produces when mode is SHUFFLE
LoadPlaylist(n, auto, mode, order) ==
    /\ CallerIdle
    /\ order \in (IF mode = "SHUFFLE" /\ n > 0 THEN Orders[n] ELSE {shuffle_order})
    /\ current_playlist' = n
    /\ auto_play_enabled' = auto
    /\ playlist_mode' = mode
    /\ shuffle_order' = order
    /\ primary_instance' = TRUE
    /\ LET be0 == IF primary_instance THEN BackendStop(backend) ELSE backend
           idx == IF n > 0 THEN 0 ELSE current_playlist_index
           p == PlayPlaylistTrack(n, idx, "STOPPED", be0, "none")
           start == n > 0 /\ auto
       IN  /\ current_playlist_index' = idx
           /\ playlist_state' = p.playlist_state
           /\ backend' = p.backend
           /\ start => CanStart(monitor_running, threads)
           /\ threads' = IF start THEN StartedThreads(monitor_running, threads) ELSE threads
           /\ monitor_running' = (monitor_running \/ start)
    /\ UNCHANGED <<track_end_callback, caller>>
    /\ UNCHANGED library

\* a set_playlist_mode that keeps the order generated earlier
SetPlaylistModeKeepsOrder(mode, order) ==
    /\ CallerIdle
    /\ playlist_mode' = mode
    /\ UNCHANGED <<current_playlist, current_playlist_index, auto_play_enabled, playlist_state,
                   monitor_running, shuffle_order, track_end_callback, primary_instance,
                   threads, backend, caller>>
    /\ UNCHANGED library

\* set_playlist_mode(mode)
SetPlaylistMode(mode, order) ==
    /\ CallerIdle
    /\ order \in (IF mode = "SHUFFLE" /\ Truthy(current_playlist)
                  THEN Orders[current_playlist] ELSE {shuffle_order})
    /\ playlist_mode' = mode
    /\ shuffle_order' = order
    /\ UNCHANGED <<current_playlist, current_playlist_index, auto_play_enabled, playlist_state,
                   monitor_running, track_end_callback, primary_instance, threads,
                   backend, caller>>
    /\ UNCHANGED library

\* _stop_monitor inside a caller operation: the stop signal is raised, then
\* the caller joins self._monitor_thread if it is alive (caller = joining),
\* else the operation returns at once (caller = done)
StopMonitor(joining, done) ==
    /\ monitor_running' = FALSE
    /\ caller' = IF MustJoin THEN joining ELSE done
    /\ UNCHANGED threads

\* set_auto_play(enabled)
SetAutoPlay(enabled) ==
    /\ CallerIdle
    /\ auto_play_enabled' = enabled
    /\ IF enabled /\ Truthy(current_playlist)
       THEN /\ CanStart(monitor_running, threads)
            /\ threads' = StartedThreads(monitor_running, threads)
            /\ monitor_running' = TRUE
            /\ UNCHANGED caller
       ELSE StopMonitor("join_auto", "idle")
    /\ UNCHANGED <<current_playlist, current_playlist_index, playlist_mode, playlist_state,
                   shuffle_order, track_end_callback, primary_instance, backend>>
    /\ UNCHANGED library

\* set_track_end_callback(callback): cb is whether callback is not None
SetTrackEndCallback(cb) ==
    /\ CallerIdle
    /\ cb # track_end_callback
    /\ track_end_callback' = cb
    /\ UNCHANGED <<ctrl, monitor_running, primary_instance, threads, backend,
                   caller>>
    /\ UNCHANGED library

\* previous() raises: in Shuffle mode list.index finds no current index in
\* _shuffle_order and its ValueError reaches the caller
PreviousRaises ==
    playlist_mode = "SHUFFLE" /\ current_playlist_index \notin Range(shuffle_order)

\* a previous() that steps back without clamping at the start
PreviousUnclamped ==
    /\ CallerIdle
    /\ Truthy(current_playlist)
    /\ current_playlist_index' = current_playlist_index - 1
    /\ UNCHANGED <<current_playlist, auto_play_enabled, playlist_mode, playlist_state,
                   shuffle_order, monitor_running, track_end_callback, primary_instance,
                   threads, backend, caller>>
    /\ UNCHANGED library

\* previous()
Previous ==
    /\ CallerIdle
    /\ Truthy(current_playlist)
    /\ IF PreviousRaises
       THEN UNCHANGED <<ctrl, primary_instance, backend>>
       ELSE LET idx == IF playlist_mode = "SHUFFLE"
                       THEN LET pos == IndexOf(shuffle_order, current_playlist_index)
                            IN  shuffle_order[(IF pos - 1 > 0 THEN pos - 1 ELSE 0) + 1]
                       ELSE IF current_playlist_index - 1 > 0 THEN current_playlist_index - 1 ELSE 0
                p == PlayPlaylistTrack(current_playlist, idx, playlist_state, backend, "none")
            IN  /\ current_playlist_index' = idx
                /\ playlist_state' = p.playlist_state
                /\ backend' = p.backend
                /\ primary_instance' = TRUE
                /\ UNCHANGED <<current_playlist, auto_play_enabled, playlist_mode, shuffle_order>>
    /\ UNCHANGED <<monitor_running, track_end_callback, threads, caller>>
    /\ UNCHANGED library

\* next()
NextOp ==
    /\ CallerIdle
    /\ Truthy(current_playlist)
    /\ current_playlist_index < MaxIndex
    /\ LET a == AdvanceTrack(current_playlist, current_playlist_index, playlist_mode,
                             shuffle_order, playlist_state, backend, "none")
       IN  /\ current_playlist_index' = a.index
           /\ playlist_state' = a.playlist_state
           /\ backend' = a.backend
           /\ primary_instance' = (primary_instance \/ a.played)
    /\ UNCHANGED <<current_playlist, auto_play_enabled, playlist_mode, shuffle_order,
                   monitor_running, track_end_callback, threads, caller>>
    /\ UNCHANGED library

\* stop_playlist(): backend stop, state, then _stop_monitor
StopPlaylist ==
    /\ CallerIdle
    /\ backend' = IF primary_instance THEN BackendStop(backend) ELSE backend
    /\ playlist_state' = "STOPPED"
    /\ StopMonitor("join_stop", "idle")
    /\ UNCHANGED <<current_playlist, current_playlist_index, auto_play_enabled, playlist_mode,
                   shuffle_order, track_end_callback, primary_instance>>
    /\ UNCHANGED library

\* pause_playlist()
PausePlaylist ==
    /\ CallerIdle
    /\ backend' = IF primary_instance THEN BackendPause(backend) ELSE backend
    /\ playlist_state' = "PAUSED"
    /\ UNCHANGED <<current_playlist, current_playlist_index, auto_play_enabled, playlist_mode,
                   shuffle_order, monitor_running, track_end_callback,
                   primary_instance, threads, caller>>
    /\ UNCHANGED library

\* resume_playlist()
ResumePlaylist ==
    /\ CallerIdle
    /\ backend' = IF primary_instance THEN BackendPlay(backend) ELSE backend
    /\ playlist_state' = "PLAYING"
    /\ auto_play_enabled => CanStart(monitor_running, threads)
    /\ threads' = IF auto_play_enabled THEN StartedThreads(monitor_running, threads) ELSE threads
    /\ monitor_running' = (monitor_running \/ auto_play_enabled)
    /\ UNCHANGED <<current_playlist, current_playlist_index, auto_play_enabled, playlist_mode,
                   shuffle_order, track_end_callback, primary_instance, caller>>
    /\ UNCHANGED library

\* FMODAudioPlayer.release(): AVPlayer.release (_stop_monitor), then the
\* backend is freed
ReleaseFMOD ==
    /\ CallerIdle
    /\ StopMonitor("join_release", "released_fmod")
    /\ UNCHANGED <<ctrl, track_end_callback, primary_instance, backend>>
    /\ UNCHANGED library

\* MPVVideoPlayer.release(): the primary instance is released and dropped
\* and the backend freed; AVPlayer.release is not called
ReleaseMPV ==
    /\ CallerIdle
    /\ backend' = IF primary_instance THEN BackendRelease(backend) ELSE backend
    /\ primary_instance' = FALSE
    /\ caller' = "released_mpv"
    /\ UNCHANGED <<ctrl, monitor_running, track_end_callback, threads>>
    /\ UNCHANGED library

\* VLCVideoPlayer.release(): as the MPV player's
ReleaseVLC ==
    /\ CallerIdle
    /\ backend' = IF primary_instance THEN BackendRelease(backend) ELSE backend
    /\ primary_instance' = FALSE
    /\ caller' = "released_vlc"
    /\ UNCHANGED <<ctrl, monitor_running, track_end_callback, threads>>
    /\ UNCHANGED library

\* the caller's operation goes on after thread.join(timeout=1.0) and returns
Joined ==
    /\ caller \in {"join_auto", "join_stop", "join_release"}
    /\ caller' = IF caller = "join_release" THEN "released_fmod" ELSE "idle"
    /\ UNCHANGED <<ctrl, monitor_running, track_end_callback, primary_instance,
                   threads, backend>>
    /\ UNCHANGED library

\* join() returns because the joined thread has exited
JoinReturn ==
    /\ ~Alive(MonitorThread)
    /\ Joined

\* join() returns because 1.0 s has elapsed while the joined thread is still
\* inside its poll: in the position queries or the track-end callback, in
\* the 0.5 s settle sleep and the load that follows it, or in the 0.5 s
\* back-off sleep
JoinTimeout ==
    /\ threads[MonitorThread].pc \in {"react", "settle", "backoff"}
    /\ Joined

\* ------------------------------------------------------ the monitor thread

\* a thread that has left the loop: the Thread object in self._monitor_thread
\* stays there, dead; a replaced one is gone
Exited(t) == [IdleThread EXCEPT !.pc = IF t = MonitorThread THEN "dead" ELSE "unborn"]

\* an except clause that lets the exception end the thread
ExceptionHandlerExits(t) == Exited(t)

\* the except clause of _monitor_playback: swallow, sleep 0.5 s, loop again
ExceptionHandler(t) == [IdleThread EXCEPT !.pc = "backoff"]

\* while self._monitor_running and self._auto_play_enabled
MonitorCheck(t) ==
    /\ threads[t].pc = "check"
    /\ threads' = [threads EXCEPT ![t] =
                     IF monitor_running /\ auto_play_enabled
                     THEN [IdleThread EXCEPT !.pc = "read"] ELSE Exited(t)]
    /\ UNCHANGED <<ctrl, monitor_running, track_end_callback, primary_instance,
                   backend, caller>>
    /\ UNCHANGED library

\* state = self._primary_instance.get_playback_state(); ok = it did not raise.
\* Without an instance the poll is only the 0.1 s sleep.
MonitorReadState(t, ok) ==
    /\ threads[t].pc = "read"
    /\ ~primary_instance => ok
    /\ threads' = [threads EXCEPT ![t] =
                     IF ~primary_instance THEN [IdleThread EXCEPT !.pc = "check"]
                     ELSE IF ok THEN [IdleThread EXCEPT !.pc = "react", !.state = backend.state]
                     ELSE ExceptionHandler(t)]
    /\ UNCHANGED <<ctrl, monitor_running, track_end_callback, primary_instance,
                   backend, caller>>
    /\ UNCHANGED library

\* the monitor's own _advance_track, ending a poll of thread t
MonitorAdvance(t, fail) ==
    LET a == AdvanceTrack(current_playlist, current_playlist_index, playlist_mode,
                          shuffle_order, playlist_state, backend, fail)
    IN  /\ current_playlist_index < MaxIndex
        /\ fail # "none" => a.raised
        /\ current_playlist_index' = a.index
        /\ playlist_state' = a.playlist_state
        /\ backend' = a.backend
        /\ primary_instance' = (primary_instance \/ a.played)
        /\ threads' = [threads EXCEPT ![t] = IF a.raised THEN ExceptionHandler(t)
                                             ELSE [IdleThread EXCEPT !.pc = "check"]]

\* a poll that advances on a stopped backend whatever the playlist state is
MonitorReactAlwaysAdvances(t, fail) ==
    /\ threads[t].pc = "react"
    /\ IF threads[t].state = "PLAYING"
       THEN /\ playlist_state' = "PLAYING"
            /\ fail = "none"
            /\ threads' = [threads EXCEPT ![t] =
                             IF backend.at_end
                             THEN [IdleThread EXCEPT !.pc = "settle",
                                                     !.track = current_playlist_index]
                             ELSE [IdleThread EXCEPT !.pc = "check"]]
            /\ UNCHANGED <<current_playlist_index, backend, primary_instance>>
       ELSE /\ fail \in {"none", "load", "play"}
            /\ MonitorAdvance(t, fail)
    /\ UNCHANGED <<current_playlist, auto_play_enabled, playlist_mode, shuffle_order,
                   monitor_running, track_end_callback, caller>>
    /\ UNCHANGED library

\* the branch of the poll taken on the state read: PLAYING, STOPPED/NOTHING
\* or any other.  fail names the call that raises: "none", "query"
\* (get_position/get_length), "callback", "load" or "play".
MonitorReact(t, fail) ==
    /\ threads[t].pc = "react"
    /\ IF threads[t].state = "PLAYING"
       THEN /\ playlist_state' = "PLAYING"
            /\ fail \in {"none", "query", "callback"}
            /\ fail = "callback" => backend.at_end /\ track_end_callback
            /\ threads' = [threads EXCEPT ![t] =
                             IF fail # "none" THEN ExceptionHandler(t)
                             ELSE IF backend.at_end
                             THEN [IdleThread EXCEPT !.pc = "settle",
                                                     !.track = current_playlist_index]
                             ELSE [IdleThread EXCEPT !.pc = "check"]]
            /\ UNCHANGED <<current_playlist_index, backend, primary_instance>>
       ELSE IF threads[t].state \in {"STOPPED", "NOTHING"} /\ playlist_state = "PLAYING"
       THEN /\ fail \in {"none", "load", "play"}
            /\ MonitorAdvance(t, fail)
       ELSE /\ fail = "none"
            /\ threads' = [threads EXCEPT ![t] = [IdleThread EXCEPT !.pc = "check"]]
            /\ UNCHANGED <<current_playlist_index, playlist_state, backend, primary_instance>>
    /\ UNCHANGED <<current_playlist, auto_play_enabled, playlist_mode, shuffle_order,
                   monitor_running, track_end_callback, caller>>
    /\ UNCHANGED library

\* time.sleep(0.5) after the track-end callback, then _advance_track
MonitorSettle(t, fail) ==
    /\ threads[t].pc = "settle"
    /\ fail \in {"none", "load", "play"}
    /\ MonitorAdvance(t, fail)
    /\ UNCHANGED <<current_playlist, auto_play_enabled, playlist_mode, shuffle_order,
                   monitor_running, track_end_callback, caller>>
    /\ UNCHANGED library

\* time.sleep(0.5) in the except clause, then back to the loop test
MonitorBackoff(t) ==
    /\ threads[t].pc = "backoff"
    /\ threads' = [threads EXCEPT ![t] = [IdleThread EXCEPT !.pc = "check"]]
    /\ UNCHANGED <<ctrl, monitor_running, track_end_callback, primary_instance,
                   backend, caller>>
    /\ UNCHANGED library

\* ------------------------------------------------- the backend's own steps

\* playback reaches the last second of the track (position >= length - 1)
BackendProgress ==
    /\ backend.state = "PLAYING"
    /\ ~backend.at_end
    /\ backend' = [backend EXCEPT !.at_end = TRUE]
    /\ UNCHANGED <<ctrl, monitor_running, track_end_callback, primary_instance,
                   threads, caller>>
    /\ UNCHANGED library

\* the track runs out: the backend no longer reports PLAYING
BackendTrackEnd ==
    /\ backend.state = "PLAYING"
    /\ backend.at_end
    /\ backend' = [backend EXCEPT !.state = "NOTHING", !.at_end = FALSE]
    /\ UNCHANGED <<ctrl, monitor_running, track_end_callback, primary_instance,
                   threads, caller>>
    /\ UNCHANGED library

\* ------------------------------------------------------------------- Spec

\* The caller's playlist operations; its own backend commands succeed (a
\* failure there raises to the caller).
Load == \E n \in 0..MaxLen, auto \in BOOLEAN, mode \in Modes :
            \E order \in (IF mode = "SHUFFLE" /\ n > 0 THEN Orders[n] ELSE {shuffle_order}) :
               LoadPlaylist(n, auto, mode, order)

SetMode == \E mode \in Modes :
               \E order \in (IF mode = "SHUFFLE" /\ Truthy(current_playlist)
                             THEN Orders[current_playlist] ELSE {shuffle_order}) :
                  SetPlaylistMode(mode, order)

\* the steps of the monitor threads and of the backend
Monitor ==
    \/ \E t \in Threads : MonitorCheck(t)
    \/ \E t \in Threads, ok \in BOOLEAN : MonitorReadState(t, ok)
    \/ \E t \in Threads, fail \in {"none", "query", "callback", "load", "play"} :
          MonitorReact(t, fail)
    \/ \E t \in Threads, fail \in {"none", "load", "play"} : MonitorSettle(t, fail)
    \/ \E t \in Threads : MonitorBackoff(t)
    \/ BackendProgress
    \/ BackendTrackEnd

\* Spec: every caller operation short of release(), with a monitor thread
\* that always exits within the join timeout
Next ==
    \/ Load
    \/ SetMode
    \/ \E enabled \in BOOLEAN : SetAutoPlay(enabled)
    \/ \E cb \in BOOLEAN : SetTrackEndCallback(cb)
    \/ Previous
    \/ NextOp
    \/ StopPlaylist
    \/ PausePlaylist
    \/ ResumePlaylist
    \/ JoinReturn
    \/ Monitor

Spec == Init /\ [][Next]_vars

\* SpecLifecycle: the operations that start and stop the monitor, on
\* Sequential playlists, where join() may also time out
NextLifecycle ==
    \/ \E n \in 0..MaxLen, auto \in BOOLEAN : LoadPlaylist(n, auto, "SEQUENTIAL", shuffle_order)
    \/ \E enabled \in BOOLEAN : SetAutoPlay(enabled)
    \/ StopPlaylist
    \/ ResumePlaylist
    \/ ReleaseFMOD
    \/ ReleaseMPV
    \/ ReleaseVLC
    \/ JoinReturn
    \/ JoinTimeout
    \/ Monitor

SpecLifecycle == Init /\ [][NextLifecycle]_vars

\* SpecOrdered: Spec on the modes that take the entries in playlist order
\* (Sequential, RepeatAll, RepeatOne), where _shuffle_order stays empty
OrderedModes == Modes \ {"SHUFFLE"}

NextOrdered ==
    \/ \E n \in 0..MaxLen, auto \in BOOLEAN, mode \in OrderedModes :
          LoadPlaylist(n, auto, mode, shuffle_order)
    \/ \E mode \in OrderedModes : SetPlaylistMode(mode, shuffle_order)
    \/ \E enabled \in BOOLEAN : SetAutoPlay(enabled)
    \/ \E cb \in BOOLEAN : SetTrackEndCallback(cb)
    \/ Previous
    \/ NextOp
    \/ StopPlaylist
    \/ PausePlaylist
    \/ ResumePlaylist
    \/ JoinReturn
    \/ Monitor

SpecOrdered == Init /\ [][NextOrdered]_vars

\* SpecNavigate: loading, mode changes and navigation in every mode,
\* Shuffle included, with the monitor running when auto-play is on
NextNavigate ==
    \/ Load
    \/ SetMode
    \/ \E enabled \in BOOLEAN : SetAutoPlay(enabled)
    \/ Previous
    \/ NextOp
    \/ JoinReturn
    \/ Monitor

SpecNavigate == Init /\ [][NextNavigate]_vars

\* ------------------------------------------------ Playlist.load: actions

\* the PlaylistFormat members of the model
Formats == {"M3U", "PLS", "UNKNOWN"}

\* a Playlist() as constructed, with the format it is bound to and the
\* source text it remembers
UnloadedPlaylist ==
    [title |-> <<"New Playlist">>, entries |-> <<>>, format |-> None, original_content |-> None]

\* a source text: its lines and the format they are written in
Text(format, lines) == [format |-> format, lines |-> lines]

\* the source texts handed to load
LoadTexts ==
    {Text("M3U", l) : l \in EntryLists({M3ULocation("a.mp3"), M3UExtInf("180", TRUE, "A")}, MaxText)}
    \cup {Text("PLS", l) : l \in EntryLists({PLSLine("file", "1", "a.mp3"),
                                             PLSLine("title", "1", "A")}, MaxText)}

\* Playlist.load(file_path_or_url, format_type) on the playlist registered
\* as name.  detected is what _detect_format makes of the path, format_type
\* the argument (None or Some(f)), readable whether open/urlopen and read
\* succeed, text what they return.  returned holds the exception raised.
PlaylistLoad(name, detected, format_type, readable, text) ==
    /\ playlists[name] # NoObject
    /\ LET o == playlists[name]
           fmt == IF format_type = None THEN detected ELSE CHOOSE f \in format_type : TRUE
           parsed == IF fmt = "M3U" THEN M3UParse(text.lines) ELSE PLSParse(text.lines)
       IN  IF format_type = None /\ detected = "UNKNOWN"
           THEN /\ returned' = [kind |-> "load", raises |-> "ValueError"]
                /\ UNCHANGED objects
           ELSE IF ~readable
           THEN /\ returned' = [kind |-> "load", raises |-> "OSError"]
                /\ objects' = [objects EXCEPT ![o].format = Some(fmt)]
           ELSE IF fmt = "UNKNOWN"
           THEN /\ returned' = [kind |-> "load", raises |-> "ValueError"]
                /\ objects' = [objects EXCEPT ![o].format = Some(fmt),
                                              ![o].original_content = Some(text)]
           ELSE IF parsed.raised
           THEN /\ returned' = [kind |-> "load", raises |-> "OverflowError"]
                /\ objects' = [objects EXCEPT ![o].format = Some(fmt),
                                              ![o].original_content = Some(text)]
           ELSE /\ returned' = [kind |-> "load", raises |-> "none"]
                /\ objects' = [objects EXCEPT ![o].format = Some(fmt),
                                              ![o].original_content = Some(text),
                                              ![o].entries = parsed.entries]
    /\ UNCHANGED <<player, playlists, content>>

\* SpecLoad: loads, failing or not, one after another on a new playlist
\* registered as "p"; the format is detected from the path or given, and
\* is the text's own format or UNKNOWN
InitLoad ==
    /\ InitPlayer
    /\ playlists = [n \in Names |-> IF n = "p" THEN 1 ELSE NoObject]
    /\ objects = [o \in ObjIds |-> IF o = 1 THEN UnloadedPlaylist ELSE FreeObject]
    /\ content = <<>>
    /\ returned = NoReturn

NextLoad ==
    \E text \in LoadTexts, readable \in BOOLEAN :
        \E detected \in {text.format, "UNKNOWN"},
           format_type \in {None, Some(text.format), Some("UNKNOWN")} :
            PlaylistLoad("p", detected, format_type, readable, text)

SpecLoad == InitLoad /\ [][NextLoad]_vars

\* the monitor's steps when no backend call and no callback raises
MonitorClean ==
    \/ \E t \in Threads : MonitorCheck(t)
    \/ \E t \in Threads : MonitorReadState(t, TRUE)
    \/ \E t \in Threads : MonitorReact(t, "none")
    \/ \E t \in Threads : MonitorSettle(t, "none")

\* SpecAutoPlay: one load_playlist with auto_play on a new player (with or
\* without a track-end callback registered first), then no caller operation:
\* only the monitor loop, fairly scheduled, and a backend in which every
\* started track reaches its end
NextAutoPlay ==
    \/ \E cb \in BOOLEAN : current_playlist = NoPlaylist /\ SetTrackEndCallback(cb)
    \/ \E n \in 0..MaxLen, mode \in OrderedModes :
          current_playlist = NoPlaylist /\ LoadPlaylist(n, TRUE, mode, shuffle_order)
    \/ MonitorClean
    \/ BackendProgress
    \/ BackendTrackEnd

SpecAutoPlay ==
    /\ Init
    /\ [][NextAutoPlay]_vars
    /\ WF_vars(MonitorClean)
    /\ WF_vars(BackendProgress)
    /\ WF_vars(BackendTrackEnd)

\* ---------------------------------------------- playlist library: actions

\* Playlist.remove_duplicates(key=attr) on the playlist registered as name
RemoveDuplicates(name, attr) ==
    /\ playlists[name] # NoObject
    /\ LET o == playlists[name]
           r == RemoveDuplicatesResult(objects[o].entries, attr)
       IN  /\ objects' = [objects EXCEPT ![o].entries = r.entries]
           /\ returned' = [kind |-> "count", value |-> r.removed, attr |-> attr, object |-> o]
    /\ UNCHANGED <<player, playlists, content>>

\* PlaylistManager.merge_playlists(name, sources, title); title is None or
\* Some(t).  With one source the loop does not run and the source object
\* itself is registered under name.  returned holds the object returned
\* (NoObject for None) next to the arguments of the call.
MergePlaylists(name, sources, title) ==
    /\ returned = NoReturn
    /\ IF sources = <<>> \/ \E i \in 1..Len(sources) : playlists[sources[i]] = NoObject
       THEN /\ returned' = [kind |-> "merged", object |-> NoObject, name |-> name, sources |-> sources]
            /\ UNCHANGED <<playlists, objects>>
       ELSE LET source_playlists == [i \in 1..Len(sources) |-> objects[playlists[sources[i]]]]
                merged == MergeAll(Head(source_playlists), Tail(source_playlists))
                o == IF Len(sources) = 1 THEN playlists[sources[1]] ELSE FreshFor(name)
            IN  /\ playlists' = [playlists EXCEPT ![name] = o]
                /\ objects' = Collect(playlists',
                                 [objects EXCEPT ![o] =
                                     IF title = None THEN merged
                                     ELSE [merged EXCEPT !.title = <<CHOOSE t \in title : TRUE>>]])
                /\ returned' = [kind |-> "merged", object |-> o, name |-> name, sources |-> sources]
    /\ UNCHANGED <<player, content>>

\* the entries of the registered playlists, and the source lists merged
ManagerEntries == {Entry(l, None, None) : l \in {"a.mp3", "b.mp3"}}

SourceLists == UNION {[1..k -> Names] : k \in 0..MaxSources}

\* the registries a PlaylistManager can hold: each name unregistered or
\* bound to an object, several names possibly to the same object (as
\* merge_playlists with one source leaves them); objects are numbered in
\* the order of the first name that refers to them
Registries ==
    {pl \in [Names -> ObjIds \cup {NoObject}] :
        LET Used(o) == \E n \in Names : pl[n] = o
            First(o) == CHOOSE k \in 1..Cardinality(Names) :
                           /\ \E n \in Names : pl[n] = o /\ NameRank[n] = k
                           /\ \A n \in Names : pl[n] = o => NameRank[n] >= k
        IN  \A o \in ObjIds :
               Used(o) => \A u \in 1..(o - 1) : Used(u) /\ First(u) < First(o)}

\* SpecManager: merge_playlists applied to every registry whose playlists
\* hold up to MaxAdded entries each
InitManager ==
    /\ InitPlayer
    /\ playlists \in Registries
    /\ \E held \in [ObjIds -> EntryLists(ManagerEntries, MaxAdded)] :
          objects = Collect(playlists, [o \in ObjIds |-> [NewPlaylist EXCEPT !.entries = held[o]]])
    /\ content = <<>>
    /\ returned = NoReturn

NextManager ==
    \E name \in Names, sources \in SourceLists, title \in {None, Some("T")} :
        MergePlaylists(name, sources, title)

SpecManager == InitManager /\ [][NextManager]_vars

\* the entry lists remove_duplicates is applied to: entries that share a
\* location may differ in title
DedupEntries == {Entry(l, t, None) : l \in Locations, t \in {None, Some("A")}}

\* SpecDedup: remove_duplicates, applied once or repeatedly, to a playlist
\* registered as "p" that holds any list of up to MaxEntries entries
InitDedup ==
    /\ InitPlayer
    /\ playlists = [n \in Names |-> IF n = "p" THEN 1 ELSE NoObject]
    /\ \E es \in EntryLists(DedupEntries, MaxEntries) :
          objects = [o \in ObjIds |-> IF o = 1 THEN [NewPlaylist EXCEPT !.entries = es]
                                      ELSE FreeObject]
    /\ content = <<>>
    /\ returned = NoReturn

NextDedup == \E attr \in KeyAttrs : RemoveDuplicates("p", attr)

SpecDedup == InitDedup /\ [][NextDedup]_vars

\* the lines of the key-indexed documents parsed
PLSLines ==
    {PLSLine("file", "1", "a.mp3"), PLSLine("file", "1", "./c.mp3"), PLSLine("file", "2", "b.mp3"),
     PLSLine("file", "3", "c.mp3"), PLSLine("file", "x", "a.mp3"),
     PLSLine("title", "1", "A"), PLSLine("title", "3", "B"),
     PLSLine("length", "1", "180"), PLSLine("length", "1", "-1"), PLSLine("length", "1", "abc"),
     PLSLine("length", "1", "inf"), PLSLine("length", "3", "12.7"),
     PLSLine("other", "", "")}

\* PLSParser.parse(content)
ParsePLS ==
    /\ returned = NoReturn
    /\ returned' = PLSParse(content)
    /\ UNCHANGED <<player, playlists, objects, content>>

\* SpecPLS: PLSParser.parse on every document of up to MaxLines lines
InitPLS ==
    /\ InitPlayer
    /\ playlists = [n \in Names |-> NoObject]
    /\ objects = [o \in ObjIds |-> FreeObject]
    /\ content \in EntryLists(PLSLines, MaxLines)
    /\ returned = NoReturn

NextPLS == ParsePLS

SpecPLS == InitPLS /\ [][NextPLS]_vars

\* the lines of the sequential-text documents parsed
M3ULines ==
    {M3UBlank, M3UComment("#EXTM3U"), M3UComment("#note"),
     M3ULocation("a.mp3"), M3ULocation("./c.mp3")}
    \cup {M3UExtInf(d, FALSE, "") : d \in {"180", "12.7", "abc"}}
    \cup {M3UExtInf(d, TRUE, t) : d \in {"180", "12.7", "abc"}, t \in {"", "A"}}

\* M3UParser.parse(content)
ParseM3U ==
    /\ returned = NoReturn
    /\ returned' = M3UParse(content)
    /\ UNCHANGED <<player, playlists, objects, content>>

\* the entries just parsed are serialized with the document as original
\* content, and the text is parsed again
ReparseM3U ==
    /\ returned.kind = "entries"
    /\ ~returned.raised
    /\ returned' = [kind |-> "reparsed", first |-> returned.entries,
                    again |-> M3UParse(M3USerialize(returned.entries, content))]
    /\ UNCHANGED <<player, playlists, objects, content>>

\* SpecM3U: parse, then serialize and parse again, on every document of up
\* to MaxLines lines
InitM3U ==
    /\ InitPlayer
    /\ playlists = [n \in Names |-> NoObject]
    /\ objects = [o \in ObjIds |-> FreeObject]
    /\ content \in EntryLists(M3ULines, MaxLines)
    /\ returned = NoReturn

NextM3U ==
    \/ ParseM3U
    \/ ReparseM3U

SpecM3U == InitM3U /\ [][NextM3U]_vars

TypeOK ==
    /\ current_playlist \in {NoPlaylist} \cup 0..MaxLen
    /\ current_playlist_index \in NoIndex..MaxIndex
    /\ auto_play_enabled \in BOOLEAN
    /\ playlist_mode \in Modes
    /\ playlist_state \in PlaylistStates
    /\ monitor_running \in BOOLEAN
    /\ backend.state \in PlaybackStates
    /\ caller \in {"idle", "join_auto", "join_stop", "join_release"} \cup Released

\* ----------------------------------------------------------------- claims

AliveThreads == {t \in Threads : Alive(t)}

\* a step in which _advance_track runs: the caller's next(), or a monitor
\* thread's advance after its settle sleep or on a stopped backend
MonitorAdvances ==
    \E t \in Threads, fail \in {"none", "load", "play"} :
        \/ MonitorSettle(t, fail)
        \/ /\ threads[t].state \in {"STOPPED", "NOTHING"}
           /\ playlist_state = "PLAYING"
           /\ MonitorReact(t, fail)

Advances == NextOp \/ MonitorAdvances

\* C1: in Sequential mode, an advance taken at the last entry, or while
\* Finished, sets playlist_state to Finished and leaves current_index as it was.
C1_AdvanceAtEndKeepsIndex ==
    [][(/\ Advances
        /\ playlist_mode = "SEQUENTIAL"
        /\ \/ current_playlist_index = PlaylistLen(current_playlist) - 1
           \/ playlist_state = "FINISHED")
       => /\ playlist_state' = "FINISHED"
          /\ current_playlist_index' = current_playlist_index]_vars

\* C2: current_index is -1 while no playlist was ever loaded, and a valid
\* index of the bound playlist whenever that playlist has entries.
C2_IndexInRange ==
    /\ current_playlist = NoPlaylist => current_playlist_index = NoIndex
    /\ Truthy(current_playlist) =>
          0 <= current_playlist_index /\ current_playlist_index < PlaylistLen(current_playlist)

\* C3: the monitor has detected the end of track i and waits in its settle
\* sleep; once the position has moved on to i+1 meanwhile (the caller's
\* next() in Sequential mode), the monitor's own advance does not move it again.
C3_NoDoubleAdvance ==
    [][(/\ threads[MonitorThread].pc = "settle"
        /\ MonitorSettle(MonitorThread, "none")
        /\ playlist_mode = "SEQUENTIAL"
        /\ playlist_state = "PLAYING"
        /\ current_playlist_index = threads[MonitorThread].track + 1)
       => current_playlist_index' = current_playlist_index]_vars

\* C4: when stop_playlist() returns, playlist_state is Stopped and the
\* backend is not playing.
C4_StoppedOnReturn ==
    [][(\/ StopPlaylist /\ caller' = "idle"
        \/ caller = "join_stop" /\ caller' = "idle")
       => playlist_state' = "STOPPED" /\ backend'.state # "PLAYING"]_vars

\* C5: at most one monitor loop is alive at any time.
C5_OneMonitor == Cardinality(AliveThreads) <= 1

\* C6: when set_auto_play(True), load_playlist(auto_play=True) or
\* resume_playlist with auto-play on returns on a non-empty playlist, a
\* monitor loop is running.
C6_MonitorRunsWhenAutoPlay ==
    [][(/\ \/ SetAutoPlay(TRUE)
           \/ \E n \in 1..MaxLen, mode \in Modes :
                 \E order \in Orders[n] \cup {shuffle_order} : LoadPlaylist(n, TRUE, mode, order)
           \/ auto_play_enabled /\ ResumePlaylist
        /\ Truthy(current_playlist'))
       => threads'[MonitorThread].pc \notin {"unborn", "dead"}]_vars

\* C7: when set_auto_play(False), stop_playlist() or release() of any
\* concrete player returns, the stop signal is raised (monitor_running is false).
C7_StopSignalOnReturn ==
    [][(\/ (SetAutoPlay(FALSE) \/ StopPlaylist) /\ caller' = "idle"
        \/ caller \in {"join_auto", "join_stop"} /\ caller' = "idle"
        \/ caller \notin Released /\ caller' \in Released)
       => ~monitor_running']_vars

\* C8: the monitor invokes the track-end callback only with a valid index
\* of the bound playlist.
C8_CallbackIndexValid ==
    [][\A t \in Threads :
          (/\ threads[t].pc = "react"
           /\ threads'[t].pc = "settle"
           /\ track_end_callback)
          => /\ 0 <= threads'[t].track
             /\ threads'[t].track < PlaylistLen(current_playlist)]_vars

\* C9: a monitor thread leaves its loop only when monitor_running or
\* auto_play_enabled is false; an exception in a poll never ends it.
C9_LoopExitsOnlyOnStop ==
    [][\A t \in Threads :
          (Alive(t) /\ threads'[t].pc \in {"unborn", "dead"})
          => ~(monitor_running /\ auto_play_enabled)]_vars

\* a poll has raised and the thread is alive in its back-off sleep, with
\* the loop condition still true
C9_Witness ==
    \E t \in Threads : threads[t].pc = "backoff" /\ monitor_running /\ auto_play_enabled

\* C10: a monitor poll that raises while the controller is Playing the
\* entry the backend holds does not desynchronize them: afterwards
\* playlist_state = Playing still implies the backend holds the entry at
\* current_index.
C10_FaultyPollKeepsSync ==
    [][(/\ \E t \in Threads : threads[t].pc # "backoff" /\ threads'[t].pc = "backoff"
        /\ playlist_state = "PLAYING"
        /\ backend.track = current_playlist_index)
       => (playlist_state' = "PLAYING" => backend'.track = current_playlist_index')]_vars

\* an advance in which no backend command raises
CleanAdvances ==
    \/ NextOp
    \/ \E t \in Threads :
          \/ MonitorSettle(t, "none")
          \/ /\ threads[t].state \in {"STOPPED", "NOTHING"}
             /\ playlist_state = "PLAYING"
             /\ MonitorReact(t, "none")

\* C11: in Sequential or RepeatAll mode an advance from index i with
\* i + 1 < N gives current_index = i + 1 with state Playing (so k advances
\* from index 0, k <= N-1, give index k); in RepeatAll mode an advance at
\* index N-1 gives current_index = 0 with state Playing.
C11_AdvanceStepsByOne ==
    [][(CleanAdvances /\ playlist_mode \in {"SEQUENTIAL", "REPEAT_ALL"} /\ current_playlist_index >= 0)
       => /\ current_playlist_index + 1 < PlaylistLen(current_playlist)
             => /\ current_playlist_index' = current_playlist_index + 1
                /\ playlist_state' = "PLAYING"
          /\ (playlist_mode = "REPEAT_ALL"
              /\ current_playlist_index = PlaylistLen(current_playlist) - 1)
             => /\ current_playlist_index' = 0
                /\ playlist_state' = "PLAYING"]_vars

\* N-1 advances from index 0 have reached the last entry of a playlist of
\* N > 1 entries, which is playing
C11_Witness ==
    /\ current_playlist > 1
    /\ playlist_mode \in {"SEQUENTIAL", "REPEAT_ALL"}
    /\ current_playlist_index = current_playlist - 1
    /\ playlist_state = "PLAYING"
    /\ backend.track = current_playlist_index

\* C12: whenever the mode is Shuffle and the bound playlist has N > 0
\* entries, shuffle_order is a permutation of 0..N-1 (length N, each index
\* once), also when an order generated for an earlier playlist of another
\* length existed.
C12_ShuffleOrderIsPermutation ==
    (playlist_mode = "SHUFFLE" /\ Truthy(current_playlist))
       => shuffle_order \in Perms(current_playlist)

\* Shuffle is on for a playlist of more than one entry and the order is not
\* the identity
C12_Witness ==
    /\ playlist_mode = "SHUFFLE"
    /\ current_playlist > 1
    /\ Len(shuffle_order) = current_playlist
    /\ shuffle_order[1] # 0

\* C13: in RepeatOne mode an advance (the caller's next() or the monitor's)
\* on a non-empty playlist leaves current_index unchanged and re-issues
\* load and play for that entry: afterwards the backend plays the entry at
\* current_index from its start.
C13_RepeatOneReplays ==
    [][(CleanAdvances /\ playlist_mode = "REPEAT_ONE" /\ Truthy(current_playlist))
       => /\ current_playlist_index' = current_playlist_index
          /\ backend' = [state |-> "PLAYING", track |-> current_playlist_index, at_end |-> FALSE]]_vars

\* C14: previous() called with current_index = 0 on a non-empty playlist
\* leaves current_index = 0, in Sequential mode and in Shuffle mode (for
\* every shuffle_order), and current_index is never negative after previous().
C14_PreviousAtZeroStays ==
    [][Previous
       => /\ current_playlist_index' >= 0
          /\ (current_playlist_index = 0 /\ playlist_mode \in {"SEQUENTIAL", "SHUFFLE"})
                => current_playlist_index' = 0]_vars

\* C14 as amended: previous() at current_index = 0 leaves it 0 in Sequential
\* mode; in Shuffle mode it leaves it 0 when 0 is first in shuffle_order
\* and otherwise moves to the index that precedes 0 in shuffle_order;
\* current_index is never negative after previous().
C14_PreviousClampsAtStart ==
    [][Previous
       => /\ current_playlist_index' >= 0
          /\ (current_playlist_index = 0 /\ playlist_mode = "SEQUENTIAL")
                => current_playlist_index' = 0
          /\ (current_playlist_index = 0 /\ playlist_mode = "SHUFFLE")
                => /\ 0 \in Range(shuffle_order)
                   /\ current_playlist_index' =
                         IF shuffle_order[1] = 0 THEN 0
                         ELSE shuffle_order[IndexOf(shuffle_order, 0)]]_vars

\* in Shuffle mode with 0 not first in shuffle_order, the entry that
\* precedes 0 in the order is the current one and is playing
C14_Witness ==
    /\ playlist_mode = "SHUFFLE"
    /\ current_playlist > 1
    /\ 0 \in Range(shuffle_order)
    /\ shuffle_order[1] # 0
    /\ current_playlist_index = shuffle_order[IndexOf(shuffle_order, 0)]
    /\ playlist_state = "PLAYING"
    /\ backend.track = current_playlist_index

\* a load_playlist step, its arguments (playlist, auto_play, mode, generated
\* order) read back from the fields the call assigns them to
LoadStep ==
    LoadPlaylist(current_playlist', auto_play_enabled', playlist_mode', shuffle_order')

StateEdges ==
    {<<"STOPPED", "PLAYING">>, <<"PLAYING", "PAUSED">>, <<"PLAYING", "FINISHED">>,
     <<"PLAYING", "STOPPED">>, <<"PAUSED", "PLAYING">>}

\* C16: every change of playlist_state follows Stopped->Playing,
\* Playing->Paused, Playing->Finished, Playing->Stopped, Paused->Playing, or
\* leads to Stopped by stop_playlist or through load_playlist (which passes
\* through Stopped before it plays); so pause_playlist never moves Stopped or
\* Finished to Paused, and resume_playlist and the monitor never move
\* Stopped or Finished to Playing.
C16_StateEdgesOnly ==
    [][playlist_state' # playlist_state
       => \/ /\ <<playlist_state, playlist_state'>> \in StateEdges
             /\ <<playlist_state, playlist_state'>> = <<"STOPPED", "PLAYING">>
                   => ~ResumePlaylist /\ threads' = threads
          \/ playlist_state' = "STOPPED" /\ StopPlaylist
          \/ Load]_vars

\* position in es of the first entry whose key is k
FirstWithKey(es, attr, k) ==
    CHOOSE i \in 1..Len(es) : KeyOf(es[i], attr) = k /\ \A j \in 1..(i - 1) : KeyOf(es[j], attr) # k

LocationsOf(es) == [i \in 1..Len(es) |-> es[i].location]

\* C17: remove_duplicates(key) keeps exactly the first entry of each distinct
\* key value, in the original relative order, and returns the number of
\* entries removed (old length minus new length); locations [a,b,a,c,b]
\* become [a,b,c] with result 2; a second application removes nothing and
\* returns 0.
C17_RemoveDuplicatesKeepsFirst ==
    [][\A attr \in KeyAttrs :
          RemoveDuplicates("p", attr)
          => LET old == objects[playlists["p"]].entries
                 new == objects'[playlists["p"]].entries
             IN  /\ {KeyOf(new[i], attr) : i \in 1..Len(new)} = {KeyOf(old[i], attr) : i \in 1..Len(old)}
                 /\ \A i, j \in 1..Len(new) : KeyOf(new[i], attr) = KeyOf(new[j], attr) => i = j
                 /\ \A i \in 1..Len(new) : new[i] = old[FirstWithKey(old, attr, KeyOf(new[i], attr))]
                 /\ \A i, j \in 1..Len(new) :
                       i < j => FirstWithKey(old, attr, KeyOf(new[i], attr))
                                   < FirstWithKey(old, attr, KeyOf(new[j], attr))
                 /\ returned'.value = Len(old) - Len(new)
                 /\ (attr = "location" /\ LocationsOf(old) = <<"a.mp3", "b.mp3", "a.mp3", "c.mp3", "b.mp3">>)
                       => LocationsOf(new) = <<"a.mp3", "b.mp3", "c.mp3">> /\ returned'.value = 2
                 /\ (returned.kind = "count" /\ returned.attr = attr)
                       => new = old /\ returned'.value = 0]_vars

\* duplicates by location were removed from a list whose entries differ in
\* title: two entries went, and three with distinct locations remain
C17_Witness ==
    /\ returned.kind = "count"
    /\ returned.attr = "location"
    /\ returned.value = 2
    /\ LocationsOf(objects[1].entries) = <<"a.mp3", "b.mp3", "c.mp3">>
    /\ objects[1].entries[1].title # None

\* the indices i with a File<i> line in document doc
FileIndices(doc) ==
    {i \in 1..3 : \E p \in 1..Len(doc) : doc[p].key = "file" /\ IntOf(doc[p].index) = Some(i)}

\* the last line of doc with the given key and index i (0 when there is none)
LastLine(doc, key, i) ==
    IF \E p \in 1..Len(doc) : doc[p].key = key /\ IntOf(doc[p].index) = Some(i)
    THEN CHOOSE p \in 1..Len(doc) :
            /\ doc[p].key = key /\ IntOf(doc[p].index) = Some(i)
            /\ \A q \in (p + 1)..Len(doc) : ~(doc[q].key = key /\ IntOf(doc[q].index) = Some(i))
    ELSE 0

\* the duration a Length value stands for: unknown for -1 and for a text
\* that is no finite number
DurationOf(text) ==
    IF text = "-1" \/ IntOfFloat(text).raises # "none" THEN None ELSE Some(IntOfFloat(text).value)

\* the indices of set S in ascending order
Ascending(S) ==
    CHOOSE seq \in [1..Cardinality(S) -> S] :
        \A a, b \in 1..Cardinality(S) : a < b => seq[a] < seq[b]

\* C18: parsing key-indexed text yields exactly one entry for each index i
\* in 1..max that has a File<i> line, in ascending index order, with title
\* and duration from Title<i> and Length<i> when present (Length -1 or
\* non-numeric: unknown duration) and none otherwise; File1, Title1,
\* Length1=180, File3 yields a.mp3 with title and duration 180, then c.mp3.
C18_PLSParseByIndex ==
    returned.kind = "entries"
    => /\ ~returned.raised
       /\ LET idx == Ascending(FileIndices(content))
              es == returned.entries
          IN  /\ Len(es) = Len(idx)
              /\ \A k \in 1..Len(idx) :
                    /\ es[k].location = NormalizePath(content[LastLine(content, "file", idx[k])].value)
                    /\ es[k].title = IF LastLine(content, "title", idx[k]) = 0 THEN None
                                     ELSE Some(content[LastLine(content, "title", idx[k])].value)
                    /\ es[k].duration = IF LastLine(content, "length", idx[k]) = 0 THEN None
                                        ELSE DurationOf(content[LastLine(content, "length", idx[k])].value)
       /\ content = <<PLSLine("file", "1", "a.mp3"), PLSLine("title", "1", "A"),
                      PLSLine("length", "1", "180"), PLSLine("file", "3", "c.mp3")>>
          => returned.entries = <<Entry("a.mp3", Some("A"), Some(180)), Entry("c.mp3", None, None)>>

\* C19: sequential-text round trip: for every entry list M3UParser.parse
\* produces, parsing the serialization of the entries (with the document as
\* original content) yields the same sequence of (location, title,
\* duration) triples; an entry with a title and unknown duration keeps its
\* duration unknown.
C19_M3URoundTrip ==
    returned.kind = "reparsed"
    => /\ ~returned.again.raised
       /\ returned.again.entries = returned.first

\* the entries of the playlists registered under sources[k..], one after
\* another
RECURSIVE SourceEntries(_, _)
SourceEntries(sources, k) ==
    IF k > Len(sources) THEN <<>>
    ELSE objects[playlists[sources[k]]].entries \o SourceEntries(sources, k + 1)

\* C20: merge_playlists(name, sources) registers under name a playlist
\* whose entries are the sources' entries concatenated in the given order,
\* and returns it; with an empty source list or an unregistered source name
\* it returns none and leaves the registry unchanged.
C20_MergeConcatenates ==
    [][(returned = NoReturn /\ returned'.kind = "merged")
       => LET name == returned'.name
              sources == returned'.sources
          IN  IF sources = <<>> \/ \E i \in 1..Len(sources) : playlists[sources[i]] = NoObject
              THEN /\ returned'.object = NoObject
                   /\ playlists' = playlists
              ELSE /\ returned'.object # NoObject
                   /\ playlists'[name] = returned'.object
                   /\ objects'[returned'.object].entries = SourceEntries(sources, 1)
                   /\ \A n \in Names \ {name} : playlists'[n] = playlists[n]]_vars

\* three sources were merged: the registered playlist holds three entries,
\* not all the same
C20_Witness ==
    /\ returned.kind = "merged"
    /\ returned.object # NoObject
    /\ \E n \in Names : playlists[n] = returned.object
    /\ Len(objects[returned.object].entries) = 3
    /\ objects[returned.object].entries[1] # objects[returned.object].entries[2]

\* C21: in Shuffle mode with current_index at position p of shuffle_order
\* (length N), an advance with p + 1 < N sets current_index to
\* shuffle_order[p + 1] and the state to Playing; at p = N - 1 it sets the
\* state to Finished, leaves current_index unchanged and issues no backend
\* command; with current_index not in shuffle_order it sets current_index
\* to shuffle_order[0] (0 for an empty order) without raising.
C21_ShuffleAdvance ==
    [][(CleanAdvances /\ playlist_mode = "SHUFFLE" /\ Truthy(current_playlist))
       => IF current_playlist_index \in Range(shuffle_order)
          THEN LET pos == IndexOf(shuffle_order, current_playlist_index)
               IN  IF pos + 1 < Len(shuffle_order)
                   THEN /\ current_playlist_index' = shuffle_order[pos + 2]
                        /\ playlist_state' = "PLAYING"
                   ELSE /\ playlist_state' = "FINISHED"
                        /\ current_playlist_index' = current_playlist_index
                        /\ backend' = backend
          ELSE /\ current_playlist_index' = IF Len(shuffle_order) > 0 THEN shuffle_order[1] ELSE 0
               /\ \A t \in Threads : threads[t].pc # "backoff" => threads'[t].pc # "backoff"]_vars

\* a Shuffle playlist of more than one entry has finished at the last
\* position of its order, which only an advance in Shuffle mode brings about
C21_Witness ==
    /\ playlist_mode = "SHUFFLE"
    /\ current_playlist > 1
    /\ Len(shuffle_order) = current_playlist
    /\ current_playlist_index = shuffle_order[Len(shuffle_order)]
    /\ playlist_state = "FINISHED"

\* C22: in every reachable state with mode Shuffle and a non-empty bound
\* playlist (also one reached by finishing a Sequential playlist and then
\* calling set_playlist_mode(Shuffle)), previous() completes without raising
\* and sets current_index to the element of shuffle_order one position
\* before the current one, clamped at position 0.
C22_ShufflePreviousNeverRaises ==
    [][(playlist_mode = "SHUFFLE" /\ Truthy(current_playlist))
       => /\ ~PreviousRaises
          /\ Previous
                => LET pos == IndexOf(shuffle_order, current_playlist_index)
                   IN  current_playlist_index' = shuffle_order[Max(0, pos - 1) + 1]]_vars

\* C23: a monitor poll that observes the backend in Stopped or Nothing calls
\* advance if and only if playlist_state is Playing at that moment; when
\* playlist_state is Paused, Stopped or Finished the poll leaves
\* current_index and playlist_state unchanged and issues no backend command.
C23_AdvanceOnlyWhilePlaying ==
    [][\A t \in Threads :
          (/\ threads[t].pc = "react"
           /\ threads'[t].pc # "react"
           /\ threads[t].state \in {"STOPPED", "NOTHING"})
          => IF playlist_state = "PLAYING"
             THEN \E fail \in {"none", "load", "play"} :
                     LET a == AdvanceTrack(current_playlist, current_playlist_index, playlist_mode,
                                           shuffle_order, playlist_state, backend, fail)
                     IN  /\ current_playlist_index' = a.index
                         /\ playlist_state' = a.playlist_state
                         /\ backend' = a.backend
                         /\ threads'[t].pc = IF a.raised THEN "backoff" ELSE "check"
             ELSE /\ current_playlist_index' = current_playlist_index
                  /\ playlist_state' = playlist_state
                  /\ backend' = backend
                  /\ threads'[t].pc = "check"]_vars

\* a poll has read the backend as not playing and the caller has paused the
\* playlist before the poll tests playlist_state
C23_Witness ==
    \E t \in Threads :
        /\ threads[t].pc = "react"
        /\ threads[t].state \in {"STOPPED", "NOTHING"}
        /\ playlist_state = "PAUSED"
        /\ Truthy(current_playlist)

\* the metadata lines of doc that precede line j with no location line in
\* between
MetadataBefore(doc, j) ==
    {m \in 1..(j - 1) : doc[m].kind = "extinf" /\ \A q \in (m + 1)..(j - 1) : doc[q].kind # "loc"}

\* C24: in sequential-text parsing the title and duration of a metadata
\* (#EXTINF) line are attached to the next non-blank, non-comment line as
\* its location, also when blank lines, comment lines or another metadata
\* line lie between them: no location line loses metadata that precedes it.
C24_MetadataReachesLocation ==
    (returned.kind = "entries" /\ ~returned.raised)
    => /\ Len(returned.entries) = Cardinality({j \in 1..Len(content) : content[j].kind = "loc"})
       /\ \A j \in 1..Len(content) :
             (content[j].kind = "loc" /\ MetadataBefore(content, j) # {})
             => LET e == returned.entries[Cardinality({q \in 1..j : content[q].kind = "loc"})]
                IN  /\ e.location = NormalizePath(content[j].text)
                    /\ \E m \in MetadataBefore(content, j) :
                          /\ e.title = IF content[m].comma THEN Some(content[m].title) ELSE None
                          /\ e.duration = DurationOf(content[m].dur)

\* C25: after load_playlist(p, mode=Shuffle) on an N-entry playlist,
\* repeated advance traverses the playlist in shuffle_order, every index
\* played exactly once before Finished, for every permutation generated:
\* the load plays the first index of the order, an advance from position p
\* plays the index at position p + 1, and only an advance from the last
\* position finishes.
C25_ShuffleTraversal ==
    [][/\ (LoadStep /\ playlist_mode' = "SHUFFLE" /\ Truthy(current_playlist'))
          => /\ current_playlist_index' = shuffle_order'[1]
             /\ backend'.track = shuffle_order'[1]
       /\ (NextOp /\ playlist_mode = "SHUFFLE" /\ current_playlist_index \in Range(shuffle_order))
          => LET pos == IndexOf(shuffle_order, current_playlist_index)
             IN  IF pos + 1 < Len(shuffle_order)
                 THEN /\ current_playlist_index' = shuffle_order[pos + 2]
                      /\ backend'.track = shuffle_order[pos + 2]
                 ELSE playlist_state' = "FINISHED"]_vars

\* C26: after load_playlist(p, auto_play=True, mode=Sequential) on an
\* N-entry playlist, with a fairly scheduled monitor loop, a backend in which
\* every started track ends and no user operation, entries 0..N-1 are played
\* in order, each once (the index only steps from i to i + 1 within the
\* playlist, and the entry at the index is the one played), playlist_state
\* eventually becomes Finished, and from then on it stays Finished and
\* current_index no longer changes.
C26_AutoPlayRunsToFinished ==
    /\ (Truthy(current_playlist) /\ playlist_mode = "SEQUENTIAL") ~> (playlist_state = "FINISHED")
    /\ [][(Truthy(current_playlist) /\ playlist_mode = "SEQUENTIAL")
          => /\ current_playlist_index' # current_playlist_index
                => /\ current_playlist_index' = current_playlist_index + 1
                   /\ current_playlist_index' < PlaylistLen(current_playlist)
                         => backend'.track = current_playlist_index'
             /\ playlist_state = "FINISHED"
                => /\ playlist_state' = "FINISHED"
                   /\ current_playlist_index' = current_playlist_index]_vars

\* C27: after pause_playlist() has returned, playlist_state stays Paused and
\* current_index unchanged until the caller invokes resume_playlist,
\* stop_playlist, next, previous or load_playlist, for every interleaving
\* with a running monitor loop (also one that read the backend state as
\* Playing just before the pause).
C27_PausedUntilCallerActs ==
    [][(/\ playlist_state = "PAUSED"
        /\ ~(ResumePlaylist \/ StopPlaylist \/ NextOp \/ Previous \/ LoadStep))
       => /\ playlist_state' = "PAUSED"
          /\ current_playlist_index' = current_playlist_index]_vars

\* C28: a Playlist.load that fails (format undetermined, source unreadable,
\* or no parser registered for an explicitly given format) leaves the
\* playlist's entries, bound format and original source text exactly as
\* they were before the call.
C28_FailedLoadChangesNothing ==
    [][(returned'.kind = "load" /\ returned'.raises # "none")
       => /\ objects'[playlists["p"]].entries = objects[playlists["p"]].entries
          /\ objects'[playlists["p"]].format = objects[playlists["p"]].format
          /\ objects'[playlists["p"]].original_content = objects[playlists["p"]].original_content]_vars

\* C29: while the mode is RepeatAll or RepeatOne and the bound playlist is
\* non-empty, no advance (the caller's next() or the monitor's) sets
\* playlist_state to Finished.
C29_RepeatNeverFinishes ==
    [][(Advances /\ playlist_mode \in {"REPEAT_ALL", "REPEAT_ONE"} /\ Truthy(current_playlist))
       => /\ ~AdvanceStep(current_playlist, current_playlist_index, playlist_mode,
                          shuffle_order).finished
          /\ playlist_state # "FINISHED" => playlist_state' # "FINISHED"]_vars

\* in RepeatAll mode the monitor has seen the last entry of a playlist of
\* more than one entry reach its end and is about to advance
C29_Witness ==
    \E t \in Threads :
        /\ threads[t].pc = "settle"
        /\ playlist_mode = "REPEAT_ALL"
        /\ current_playlist > 1
        /\ current_playlist_index = current_playlist - 1
        /\ playlist_state = "PLAYING"

\* C30: merge_playlists never modifies a source playlist (its entries and
\* title are unchanged, also when a title argument is given), and the
\* playlist it registers is a distinct object from every source, for any
\* number of sources >= 1.  (Stated for the sources registered under
\* another name than the one merged into, which stay registered.)
C30_MergeLeavesSourcesAlone ==
    [][(returned = NoReturn /\ returned'.kind = "merged" /\ returned'.object # NoObject)
       => \A i \in 1..Len(returned'.sources) :
             returned'.sources[i] # returned'.name
             => /\ returned'.object # playlists[returned'.sources[i]]
                /\ objects'[playlists[returned'.sources[i]]]
                      = objects[playlists[returned'.sources[i]]]]_vars

====
